---- MODULE Spec2Model ----
(***************************************************************************)
(* Konipa B2B portal: the inter-warehouse transfer workflow with its       *)
(* stock-ledger side effects, and per-client pricing of order and quote    *)
(* lines.  The relational store is modelled table by table; every handler  *)
(* is an operator over the tables it reads and writes.                     *)
(*                                                                         *)
(* Units.  numeric(_,2) columns hold hundredths (cents, hundredths of a    *)
(* percent).  Numbers passed to a handler are given in thousandths, so     *)
(* that the store's rounding to two decimals is visible.  Prices computed  *)
(* by a handler are exact rationals, held as multiples of 1/PriceScale of  *)
(* a hundredth; IEEE-754 rounding of the JavaScript doubles is not         *)
(* modelled.                                                               *)
(***************************************************************************)
EXTENDS Integers, Sequences, FiniteSets, TLC

VARIABLES products, pricing, stock, transfers, quotes, quote_items, orders,
          order_items, substitutes, last, proc, calls

vars == <<products, pricing, stock, transfers, quotes, quote_items, orders,
          order_items, substitutes, last, proc, calls>>

----------------------------------------------------------------------------
(* Bounds of the model *)

\* requests served in one behaviour
MaxCalls == 4

\* requests in flight at the same time
NumProcs == 2

\* largest quantity a caller passes
MaxQty == 1

\* substitute rows a product has
MaxSubstitutes == 6

----------------------------------------------------------------------------
(* Domain enums and fixtures *)

\* SQL NULL in an integer column, `undefined` for an optional number
Null == 0 - 1

warehouseEnum == {"ibn_tachfine", "drb_omar", "la_villette"}

transferStatusEnum ==
  {"pending", "in_preparation", "ready_to_ship", "shipped", "received", "cancelled"}

\* rows of usersTable that exist: id -> role
usersTable == (1 :> "representative") @@ (2 :> "counter_ibn_tachfine")

\* ids of the rows of ordersTable and clientsTable that exist
ordersTable == {1}

\* ordersTable with the one order of the fixtures: client 1, created on the
\* first day of the current month (days are counted from that day)
OneOrder == <<[client_id |-> 1, created_at |-> 0]>>

clientsTable == {1, 2}

\* (from_warehouse, to_warehouse) pairs the callers of createRequest pass
TransferRoutes ==
  {<<"la_villette", "ibn_tachfine">>, <<"la_villette", "la_villette">>}

Max(a, b) == IF a >= b THEN a ELSE b

----------------------------------------------------------------------------
(* Catalog store: products and stock *)

\* a row of productsTable, or NoProduct where the id matches no row
NoProduct == [base_price |-> Null, is_active |-> FALSE, present |-> FALSE]

Product(base, active) == [base_price |-> base, is_active |-> active, present |-> TRUE]

\* getProductById: the product when it exists and is active, else null
getProductById(prods, productId) ==
  IF prods[productId].present /\ prods[productId].is_active
  THEN prods[productId] ELSE NoProduct

\* select from stockTable where product_id = p and warehouse = w:
\* the matching rows, in id order, each with its id
SelectStock(st, p, w) ==
  LET ids == {i \in DOMAIN st : st[i].product_id = p /\ st[i].warehouse = w}
      F[S \in SUBSET ids] ==
        IF S = {} THEN <<>>
        ELSE LET m == CHOOSE x \in S : \A y \in S : x >= y
             IN Append(F[S \ {m}], [id |-> m, quantity |-> st[m].quantity])
  IN F[ids]

\* update stockTable set quantity = qty where id = id
UpdateStockById(st, id, qty) == [st EXCEPT ![id].quantity = qty]

\* update stockTable set quantity = qty where product_id = p and warehouse = w
UpdateStockByKey(st, p, w, qty) ==
  [i \in DOMAIN st |->
     IF st[i].product_id = p /\ st[i].warehouse = w
     THEN [st[i] EXCEPT !.quantity = qty] ELSE st[i]]

StockInsertAllowed_Always(st, p, w) == TRUE

\* the unique (product_id, warehouse) constraint of stockTable
StockInsertAllowed(st, p, w) == SelectStock(st, p, w) = <<>>

\* insert into stockTable
InsertStock(st, p, w, qty) ==
  Append(st, [product_id |-> p, warehouse |-> w, quantity |-> qty])

\* updateProductStock, run without interruption
updateProductStock(prods, st, productId, warehouse, quantity) ==
  IF ~getProductById(prods, productId).present
  THEN [err |-> "NotFound", stock |-> st]
  ELSE LET existingStock == SelectStock(st, productId, warehouse)
       IN IF Len(existingStock) > 0
          THEN [err |-> "ok", stock |-> UpdateStockByKey(st, productId, warehouse, quantity)]
          ELSE [err |-> "ok", stock |-> InsertStock(st, productId, warehouse, quantity)]

----------------------------------------------------------------------------
(* Transfer workflow *)

NewTransferRow_Prepared(orderId, productId, fromWarehouse, toWarehouse, quantity, requestedBy) ==
  [order_id |-> orderId, product_id |-> productId,
   from_warehouse |-> fromWarehouse, to_warehouse |-> toWarehouse,
   quantity_requested |-> quantity, quantity_prepared |-> quantity,
   status |-> "pending", requested_by |-> requestedBy,
   prepared_by |-> requestedBy, received_by |-> Null,
   prepared_at |-> FALSE, received_at |-> FALSE]

\* the row createTransferRequest inserts; the columns it does not name take
\* the defaults of transferRequestsTable
NewTransferRow(orderId, productId, fromWarehouse, toWarehouse, quantity, requestedBy) ==
  [order_id |-> orderId, product_id |-> productId,
   from_warehouse |-> fromWarehouse, to_warehouse |-> toWarehouse,
   quantity_requested |-> quantity, quantity_prepared |-> 0,
   status |-> "pending", requested_by |-> requestedBy,
   prepared_by |-> Null, received_by |-> Null,
   prepared_at |-> FALSE, received_at |-> FALSE]

createTransferRequest(prods, trs, orderId, productId, fromWarehouse, toWarehouse, quantity, requestedBy) ==
  IF orderId \notin ordersTable THEN [err |-> "NotFound", transfers |-> trs]
  ELSE IF ~prods[productId].present THEN [err |-> "NotFound", transfers |-> trs]
  ELSE IF requestedBy \notin DOMAIN usersTable THEN [err |-> "NotFound", transfers |-> trs]
  ELSE [err |-> "ok",
        transfers |-> Append(trs, NewTransferRow(orderId, productId, fromWarehouse,
                                                 toWarehouse, quantity, requestedBy))]

StatusUpdateValues_ShippedPrepares(row, status, updatedBy, quantityPrepared) ==
  IF status \in {"in_preparation", "ready_to_ship", "shipped"}
  THEN [row EXCEPT !.status = status,
                   !.prepared_by = updatedBy,
                   !.prepared_at = TRUE,
                   !.quantity_prepared =
                      IF quantityPrepared # Null THEN quantityPrepared ELSE @]
  ELSE [row EXCEPT !.status = status]

\* the updateValues object of updateTransferRequestStatus applied to a row
StatusUpdateValues(row, status, updatedBy, quantityPrepared) ==
  IF status \in {"in_preparation", "ready_to_ship"}
  THEN [row EXCEPT !.status = status,
                   !.prepared_by = updatedBy,
                   !.prepared_at = TRUE,
                   !.quantity_prepared =
                      IF quantityPrepared # Null THEN quantityPrepared ELSE @]
  ELSE IF status = "shipped"
  THEN [row EXCEPT !.status = status,
                   !.quantity_prepared =
                      IF quantityPrepared # Null THEN quantityPrepared ELSE @]
  ELSE [row EXCEPT !.status = status]

updateTransferRequestStatus_NoUserCheck(trs, transferId, status, updatedBy, quantityPrepared) ==
  IF transferId \notin DOMAIN trs THEN [err |-> "NotFound", transfers |-> trs]
  ELSE [err |-> "ok",
        transfers |-> [trs EXCEPT ![transferId] =
                         StatusUpdateValues(@, status, updatedBy, quantityPrepared)]]

updateTransferRequestStatus(trs, transferId, status, updatedBy, quantityPrepared) ==
  IF transferId \notin DOMAIN trs THEN [err |-> "NotFound", transfers |-> trs]
  ELSE IF updatedBy \notin DOMAIN usersTable THEN [err |-> "NotFound", transfers |-> trs]
  ELSE [err |-> "ok",
        transfers |-> [trs EXCEPT ![transferId] =
                         StatusUpdateValues(@, status, updatedBy, quantityPrepared)]]

ReceptionAllowed_Any(status) == TRUE

ReceptionAllowed_Lax(status) == status \in {"shipped", "ready_to_ship"}

\* the status test that guards reception
ReceptionAllowed(status) == status = "shipped"

\* the update that marks a transfer received
ReceivedUpdate(trs, transferId, receivedBy) ==
  [trs EXCEPT ![transferId].status = "received",
              ![transferId].received_by = receivedBy,
              ![transferId].received_at = TRUE]

DestQuantity_Overwrite(existingQuantity, quantityReceived) == quantityReceived

\* quantity written to an existing destination row
DestQuantity(existingQuantity, quantityReceived) == existingQuantity + quantityReceived

SourceQuantity_NoFloor(sourceQuantity, quantityReceived) ==
  sourceQuantity - quantityReceived

\* quantity written to an existing source row
SourceQuantity(sourceQuantity, quantityReceived) ==
  Max(0, sourceQuantity - quantityReceived)

\* destination write: update the row read before, else insert
DestWrite(st, transfer, existingStock, quantityReceived) ==
  IF Len(existingStock) > 0
  THEN UpdateStockById(st, existingStock[1].id,
                       DestQuantity(existingStock[1].quantity, quantityReceived))
  ELSE InsertStock(st, transfer.product_id, transfer.to_warehouse, quantityReceived)

\* source write: update the row read before, else nothing
SourceWrite(st, sourceStock, quantityReceived) ==
  IF Len(sourceStock) > 0
  THEN UpdateStockById(st, sourceStock[1].id,
                       SourceQuantity(sourceStock[1].quantity, quantityReceived))
  ELSE st

\* confirmTransferReception, run without interruption
confirmTransferReception(trs, st, transferId, receivedBy, quantityReceived) ==
  IF transferId \notin DOMAIN trs
  THEN [err |-> "NotFound", transfers |-> trs, stock |-> st]
  ELSE IF ~ReceptionAllowed(trs[transferId].status)
  THEN [err |-> "PreconditionFailed", transfers |-> trs, stock |-> st]
  ELSE IF receivedBy \notin DOMAIN usersTable
  THEN [err |-> "NotFound", transfers |-> trs, stock |-> st]
  ELSE LET transfer == trs[transferId]
           existingStock == SelectStock(st, transfer.product_id, transfer.to_warehouse)
           st1 == DestWrite(st, transfer, existingStock, quantityReceived)
           sourceStock == SelectStock(st1, transfer.product_id, transfer.from_warehouse)
           st2 == SourceWrite(st1, sourceStock, quantityReceived)
       IN [err |-> "ok",
           transfers |-> ReceivedUpdate(trs, transferId, receivedBy),
           stock |-> st2]

----------------------------------------------------------------------------
(* Specification Spec: the transfer workflow and the stock ledger, one     *)
(* request at a time.  `last` is the request served last, with its         *)
(* arguments and its outcome; `calls` counts the requests served.          *)

Init ==
  /\ products = (1 :> Product(20000, TRUE)) @@ (2 :> Product(10000, FALSE)) @@ (3 :> NoProduct)
  /\ pricing = <<>>
  /\ stock = <<>>
  /\ transfers = <<>>
  /\ quotes = <<>>
  /\ quote_items = <<>>
  /\ substitutes = <<>>
  /\ orders = OneOrder
  /\ order_items = <<>>
  /\ last = [op |-> "none", err |-> "ok"]
  /\ proc = <<>>
  /\ calls = 0

Served == calls < MaxCalls /\ calls' = calls + 1

\* what the stock table held for a transfer's product at one end of its route
\* when a request arrived (Null: no row, or no such transfer)
QuantityBefore(trs, st, transferId, end) ==
  IF transferId \notin DOMAIN trs THEN Null
  ELSE LET tr == trs[transferId]
           rows == SelectStock(st, tr.product_id,
                               IF end = "to" THEN tr.to_warehouse ELSE tr.from_warehouse)
       IN IF Len(rows) > 0 THEN rows[1].quantity ELSE Null

CreateTransferRequest(orderId, productId, route, quantity, requestedBy) ==
  LET r == createTransferRequest(products, transfers, orderId, productId,
                                 route[1], route[2], quantity, requestedBy)
  IN /\ Served
     /\ transfers' = r.transfers
     /\ last' = [op |-> "createTransferRequest", err |-> r.err,
                 orderId |-> orderId, productId |-> productId,
                 fromWarehouse |-> route[1], toWarehouse |-> route[2],
                 quantity |-> quantity, requestedBy |-> requestedBy]
     /\ UNCHANGED <<substitutes, orders, order_items, products, pricing, stock, quotes, quote_items, proc>>

UpdateTransferRequestStatus(transferId, status, updatedBy, quantityPrepared) ==
  LET r == updateTransferRequestStatus(transfers, transferId, status, updatedBy,
                                       quantityPrepared)
  IN /\ Served
     /\ transfers' = r.transfers
     /\ last' = [op |-> "updateTransferRequestStatus", err |-> r.err,
                 transferId |-> transferId, status |-> status,
                 updatedBy |-> updatedBy, quantityPrepared |-> quantityPrepared]
     /\ UNCHANGED <<substitutes, orders, order_items, products, pricing, stock, quotes, quote_items, proc>>

ConfirmTransferReception(transferId, receivedBy, quantityReceived) ==
  LET r == confirmTransferReception(transfers, stock, transferId, receivedBy,
                                    quantityReceived)
  IN /\ Served
     /\ transfers' = r.transfers
     /\ stock' = r.stock
     /\ last' = [op |-> "confirmTransferReception", err |-> r.err,
                 transferId |-> transferId, receivedBy |-> receivedBy,
                 quantityReceived |-> quantityReceived,
                 destBefore |-> QuantityBefore(transfers, stock, transferId, "to"),
                 sourceBefore |-> QuantityBefore(transfers, stock, transferId, "from")]
     /\ UNCHANGED <<substitutes, orders, order_items, products, pricing, quotes, quote_items, proc>>

IsPendingReception_AnyDestination(row) == row.status \in {"shipped", "ready_to_ship"}

\* the where clause of getPendingTransferRequestsForIbnTachfine
IsPendingReception(row) ==
  /\ row.to_warehouse = "ibn_tachfine"
  /\ row.status = "shipped" \/ row.status = "ready_to_ship"

\* getPendingTransferRequestsForIbnTachfine: the rows selected, by id
getPendingTransferRequestsForIbnTachfine(trs) ==
  {t \in DOMAIN trs : IsPendingReception(trs[t])}

GetPendingTransferRequestsForIbnTachfine ==
  /\ Served
  /\ last' = [op |-> "getPendingTransferRequestsForIbnTachfine", err |-> "ok",
              result |-> getPendingTransferRequestsForIbnTachfine(transfers)]
  /\ UNCHANGED <<substitutes, orders, order_items, products, pricing, stock, transfers, quotes,
                 quote_items, proc>>

UpdateProductStock(productId, warehouse, quantity) ==
  LET r == updateProductStock(products, stock, productId, warehouse, quantity)
  IN /\ Served
     /\ stock' = r.stock
     /\ last' = [op |-> "updateProductStock", err |-> r.err,
                 productId |-> productId, warehouse |-> warehouse,
                 quantity |-> quantity]
     /\ UNCHANGED <<substitutes, orders, order_items, products, pricing, transfers, quotes, quote_items, proc>>

\* Arguments the callers pass: every well-formed combination over the rows
\* that exist, and one request for each id that matches no row.
MissingId == 3

CreateInputs ==
  ({1} \X {1} \X TransferRoutes \X (1..MaxQty) \X {1})
    \cup {<<2, 1, <<"la_villette", "ibn_tachfine">>, 1, 1>>,
          <<1, MissingId, <<"la_villette", "ibn_tachfine">>, 1, 1>>,
          <<1, 1, <<"la_villette", "ibn_tachfine">>, 1, MissingId>>}

UpdateStatusInputs ==
  ((DOMAIN transfers) \X transferStatusEnum \X {1} \X ({Null} \cup 0..MaxQty))
    \cup {<<Len(transfers) + 1, "shipped", 1, Null>>}
    \cup ((DOMAIN transfers) \X {"in_preparation"} \X {MissingId} \X {Null})

ConfirmInputs ==
  ((1..(Len(transfers) + 1)) \X {2} \X (1..MaxQty))
    \cup ((DOMAIN transfers) \X {MissingId} \X {1})

StockWarehouses == {"ibn_tachfine", "la_villette"}

UpdateStockInputs ==
  ({1} \X StockWarehouses \X (0..MaxQty)) \cup {<<2, "la_villette", 1>>}

Next ==
  \/ \E i \in CreateInputs : CreateTransferRequest(i[1], i[2], i[3], i[4], i[5])
  \/ \E i \in UpdateStatusInputs : UpdateTransferRequestStatus(i[1], i[2], i[3], i[4])
  \/ \E i \in ConfirmInputs : ConfirmTransferReception(i[1], i[2], i[3])
  \/ \E i \in UpdateStockInputs : UpdateProductStock(i[1], i[2], i[3])
  \/ GetPendingTransferRequestsForIbnTachfine

Spec == Init /\ [][Next]_vars

----------------------------------------------------------------------------
(* Properties of the transfer workflow, checked under Spec *)

ConfirmOk == last'.op = "confirmTransferReception" /\ last'.err = "ok"

\* the quantity of the one stock row of (p, w), Null when there is none
StockQuantity(st, p, w) ==
  LET rows == SelectStock(st, p, w)
  IN IF Len(rows) > 0 THEN rows[1].quantity ELSE Null

\* C1: confirmTransferReception on a transfer whose status is not 'shipped'
\* fails with a precondition error and changes neither the transfer table
\* nor the stock table.
C1_ReceptionOnlyFromShipped ==
  [][(/\ last'.op = "confirmTransferReception"
      /\ last'.transferId \in DOMAIN transfers
      /\ transfers[last'.transferId].status # "shipped")
       => (/\ last'.err = "PreconditionFailed"
           /\ transfers' = transfers
           /\ stock' = stock)]_vars

C1_Witness ==
  /\ last.op = "confirmTransferReception"
  /\ last.err = "PreconditionFailed"
  /\ last.transferId \in DOMAIN transfers
  /\ transfers[last.transferId].status = "received"

\* C3: every stock row has quantity >= 0 in every reachable state.
C3_StockNonNegative == \A i \in DOMAIN stock : stock[i].quantity >= 0

C3_Witness ==
  /\ last.op = "confirmTransferReception"
  /\ last.err = "ok"
  /\ last.sourceBefore # Null
  /\ last.sourceBefore < last.quantityReceived
  /\ \A i \in DOMAIN stock : stock[i].quantity >= 0

ForwardSteps ==
  {<<"pending", "in_preparation">>, <<"in_preparation", "ready_to_ship">>,
   <<"ready_to_ship", "shipped">>, <<"shipped", "received">>}
    \cup {<<s, "cancelled">> : s \in transferStatusEnum}

\* C4 as claimed: a transfer's status only moves one step forward along
\* pending -> in_preparation -> ready_to_ship -> shipped -> received, or to
\* cancelled; it never skips a step and never moves back.
C4_StatusOnlyForward ==
  [][\A t \in DOMAIN transfers :
       \/ transfers'[t].status = transfers[t].status
       \/ <<transfers[t].status, transfers'[t].status>> \in ForwardSteps]_vars

\* What the handlers do keep: a successful updateTransferRequestStatus sets
\* the status it is given whatever the current status is; a status changes
\* only by that or by a successful confirmTransferReception, which moves
\* shipped to received.
StatusSetAsGiven ==
  [][/\ (last'.op = "updateTransferRequestStatus" /\ last'.err = "ok")
          => transfers'[last'.transferId].status = last'.status
     /\ \A t \in DOMAIN transfers :
          transfers'[t].status # transfers[t].status
            => \/ /\ last'.op = "updateTransferRequestStatus"
                  /\ last'.err = "ok"
                  /\ last'.transferId = t
               \/ /\ ConfirmOk
                  /\ last'.transferId = t
                  /\ transfers[t].status = "shipped"
                  /\ transfers'[t].status = "received"]_vars

\* a received transfer put back to pending
ReceivedPutBack ==
  /\ last.op = "updateTransferRequestStatus"
  /\ last.err = "ok"
  /\ last.status = "pending"
  /\ transfers[last.transferId].received_at
  /\ transfers[last.transferId].status = "pending"

\* the destination row as the claim C5 describes it
DestAsClaimed(tr, q) ==
  LET before == StockQuantity(stock, tr.product_id, tr.to_warehouse)
  IN /\ Len(SelectStock(stock', tr.product_id, tr.to_warehouse)) = 1
     /\ StockQuantity(stock', tr.product_id, tr.to_warehouse)
          = IF before # Null THEN before + q ELSE q

ReceivedAsClaimed(t) ==
  /\ transfers'[t].status = "received"
  /\ transfers'[t].received_by = last'.receivedBy

\* C5 as claimed: a successful confirmTransferReception(t, user, q) sets
\* status 'received' and received_by = user, and leaves the destination row
\* at old quantity + q, or creates it with quantity q.
C5_DestinationCredited ==
  [][ConfirmOk =>
       /\ ReceivedAsClaimed(last'.transferId)
       /\ DestAsClaimed(transfers[last'.transferId], last'.quantityReceived)]_vars

\* C5 as amended: the same, for a transfer whose source and destination
\* warehouses differ; when they are the same warehouse, the row ends at its
\* old quantity, or at 0 when the call created it.
C5_DestinationCreditedDistinct ==
  [][ConfirmOk =>
       LET tr == transfers[last'.transferId]
           before == StockQuantity(stock, tr.product_id, tr.to_warehouse)
       IN /\ ReceivedAsClaimed(last'.transferId)
          /\ tr.from_warehouse # tr.to_warehouse
               => DestAsClaimed(tr, last'.quantityReceived)
          /\ tr.from_warehouse = tr.to_warehouse
               => StockQuantity(stock', tr.product_id, tr.to_warehouse)
                    = IF before # Null THEN before ELSE 0]_vars

C5_Witness ==
  /\ last.op = "confirmTransferReception"
  /\ last.err = "ok"
  /\ transfers[last.transferId].from_warehouse # transfers[last.transferId].to_warehouse
  /\ last.destBefore >= 1
  /\ StockQuantity(stock, transfers[last.transferId].product_id,
                   transfers[last.transferId].to_warehouse)
       = last.destBefore + last.quantityReceived
  /\ transfers[last.transferId].received_by = last.receivedBy

\* the source row as the claim C6 describes it
SourceAsClaimed(tr, q) ==
  LET before == StockQuantity(stock, tr.product_id, tr.from_warehouse)
      after == StockQuantity(stock', tr.product_id, tr.from_warehouse)
  IN IF before # Null THEN after = Max(0, before - q) ELSE after = Null

\* insufficient source stock is no error: a shipped transfer received by an
\* existing user succeeds whatever the source row holds
NoStockError ==
  (/\ last'.op = "confirmTransferReception"
   /\ last'.transferId \in DOMAIN transfers
   /\ transfers[last'.transferId].status = "shipped"
   /\ last'.receivedBy \in DOMAIN usersTable)
    => last'.err = "ok"

\* C6 as claimed: a successful confirmTransferReception(t, user, q) leaves an
\* existing source row at max(0, old quantity - q), raises no error when the
\* source holds less than q, and creates no source row when there is none.
C6_SourceDebitedFloored ==
  [][/\ NoStockError
     /\ ConfirmOk =>
          SourceAsClaimed(transfers[last'.transferId], last'.quantityReceived)]_vars

\* C6 as amended: the same, for a transfer whose source and destination
\* warehouses differ.
C6_SourceDebitedFlooredDistinct ==
  [][/\ NoStockError
     /\ (/\ ConfirmOk
         /\ transfers[last'.transferId].from_warehouse
              # transfers[last'.transferId].to_warehouse) =>
          SourceAsClaimed(transfers[last'.transferId], last'.quantityReceived)]_vars

C6_Witness ==
  /\ last.op = "confirmTransferReception"
  /\ last.err = "ok"
  /\ transfers[last.transferId].from_warehouse # transfers[last.transferId].to_warehouse
  /\ last.sourceBefore = 0
  /\ last.quantityReceived = 1
  /\ StockQuantity(stock, transfers[last.transferId].product_id,
                   transfers[last.transferId].from_warehouse) = 0

----------------------------------------------------------------------------
(* Specification SpecSteps: requests in flight together.  A handler runs   *)
(* from one awaited store call to the next; each store call is one step,   *)
(* and the steps of different requests interleave.  The handlers open no   *)
(* transaction.  proc[p] is the request process p serves: its position     *)
(* (pc), its arguments and the rows it has read.  Every process serves one *)
(* request.                                                                *)

Procs == 1..NumProcs

Idle == [pc |-> "idle", op |-> "none", err |-> "ok"]


Fail(p, kind) == [proc EXCEPT ![p].pc = "failed", ![p].err = kind]

Goto(p, pc) == [proc EXCEPT ![p].pc = pc]

\* a shipped transfer, as createTransferRequest and updateTransferRequestStatus
\* leave it
ShippedTransfer(route) ==
  StatusUpdateValues(NewTransferRow(1, 1, route[1], route[2], 1, 1), "shipped", 1, Null)

InitSteps ==
  /\ products = (1 :> Product(20000, TRUE)) @@ (2 :> Product(10000, FALSE)) @@ (3 :> NoProduct)
  /\ pricing = <<>>
  /\ stock \in {<<>>,
                InsertStock(<<>>, 1, "la_villette", 1),
                InsertStock(InsertStock(<<>>, 1, "la_villette", 1), 1, "ibn_tachfine", 1)}
  /\ transfers \in {<<ShippedTransfer(<<"la_villette", "ibn_tachfine">>)>>,
                    <<ShippedTransfer(<<"la_villette", "ibn_tachfine">>),
                      ShippedTransfer(<<"la_villette", "ibn_tachfine">>)>>}
  /\ quotes = <<>>
  /\ quote_items = <<>>
  /\ substitutes = <<>>
  /\ orders = OneOrder
  /\ order_items = <<>>
  /\ last = [op |-> "none", err |-> "ok"]
  /\ proc = [p \in Procs |-> Idle]
  /\ calls = 0

\* confirmTransferReception: select the transfer, test its status
RecvSelectTransfer(p, transferId, receivedBy, quantityReceived) ==
  LET call == [pc |-> "recv_select_user", op |-> "confirmTransferReception",
               err |-> "ok", transferId |-> transferId, receivedBy |-> receivedBy,
               quantityReceived |-> quantityReceived]
  IN /\ proc[p].pc = "idle"
     /\ proc' = [proc EXCEPT ![p] =
                   IF transferId \notin DOMAIN transfers
                   THEN [call EXCEPT !.pc = "failed", !.err = "NotFound"]
                   ELSE IF ~ReceptionAllowed(transfers[transferId].status)
                   THEN [call EXCEPT !.pc = "failed", !.err = "PreconditionFailed"]
                   ELSE [transfer |-> transfers[transferId]] @@ call]
     /\ UNCHANGED <<substitutes, orders, order_items, products, pricing, stock, transfers, quotes, quote_items, last, calls>>

\* select the receiving user
RecvSelectUser(p) ==
  /\ proc[p].pc = "recv_select_user"
  /\ proc' = IF proc[p].receivedBy \notin DOMAIN usersTable
             THEN Fail(p, "NotFound")
             ELSE Goto(p, "recv_update_transfer")
  /\ UNCHANGED <<substitutes, orders, order_items, products, pricing, stock, transfers, quotes, quote_items, last, calls>>

\* update the transfer to 'received'
RecvUpdateTransfer(p) ==
  /\ proc[p].pc = "recv_update_transfer"
  /\ transfers' = ReceivedUpdate(transfers, proc[p].transferId, proc[p].receivedBy)
  /\ proc' = Goto(p, "recv_select_dest")
  /\ UNCHANGED <<substitutes, orders, order_items, products, pricing, stock, quotes, quote_items, last, calls>>

\* select the destination stock row
RecvSelectDest(p) ==
  /\ proc[p].pc = "recv_select_dest"
  /\ proc' = [proc EXCEPT ![p] =
                [existingStock |-> SelectStock(stock, proc[p].transfer.product_id,
                                               proc[p].transfer.to_warehouse)]
                  @@ [proc[p] EXCEPT !.pc = "recv_write_dest"]]
  /\ UNCHANGED <<substitutes, orders, order_items, products, pricing, stock, transfers, quotes, quote_items, last, calls>>

\* update the destination row read, or insert one; an insert that meets a row
\* for the same (product, warehouse) is rejected by the store
RecvWriteDest(p) ==
  /\ proc[p].pc = "recv_write_dest"
  /\ IF /\ Len(proc[p].existingStock) = 0
        /\ ~StockInsertAllowed(stock, proc[p].transfer.product_id,
                               proc[p].transfer.to_warehouse)
     THEN /\ proc' = Fail(p, "UniqueViolation")
          /\ stock' = stock
     ELSE /\ stock' = DestWrite(stock, proc[p].transfer, proc[p].existingStock,
                                proc[p].quantityReceived)
          /\ proc' = Goto(p, "recv_select_source")
  /\ UNCHANGED <<substitutes, orders, order_items, products, pricing, transfers, quotes, quote_items, last, calls>>

\* select the source stock row
RecvSelectSource(p) ==
  /\ proc[p].pc = "recv_select_source"
  /\ proc' = [proc EXCEPT ![p] =
                [sourceStock |-> SelectStock(stock, proc[p].transfer.product_id,
                                             proc[p].transfer.from_warehouse)]
                  @@ [proc[p] EXCEPT !.pc = "recv_write_source"]]
  /\ UNCHANGED <<substitutes, orders, order_items, products, pricing, stock, transfers, quotes, quote_items, last, calls>>

\* update the source row read, if any, and return
RecvWriteSource(p) ==
  /\ proc[p].pc = "recv_write_source"
  /\ stock' = SourceWrite(stock, proc[p].sourceStock, proc[p].quantityReceived)
  /\ proc' = Goto(p, "done")
  /\ UNCHANGED <<substitutes, orders, order_items, products, pricing, transfers, quotes, quote_items, last, calls>>

\* updateProductStock: getProductById
UpsSelectProduct(p, productId, warehouse, quantity) ==
  LET call == [pc |-> "ups_select_stock", op |-> "updateProductStock", err |-> "ok",
               productId |-> productId, warehouse |-> warehouse,
               quantity |-> quantity]
  IN /\ proc[p].pc = "idle"
     /\ proc' = [proc EXCEPT ![p] =
                   IF ~getProductById(products, productId).present
                   THEN [call EXCEPT !.pc = "failed", !.err = "NotFound"]
                   ELSE call]
     /\ UNCHANGED <<substitutes, orders, order_items, products, pricing, stock, transfers, quotes, quote_items, last, calls>>

\* select the stock row
UpsSelectStock(p) ==
  /\ proc[p].pc = "ups_select_stock"
  /\ proc' = [proc EXCEPT ![p] =
                [existingStock |-> SelectStock(stock, proc[p].productId, proc[p].warehouse)]
                  @@ [proc[p] EXCEPT !.pc = "ups_write_stock"]]
  /\ UNCHANGED <<substitutes, orders, order_items, products, pricing, stock, transfers, quotes, quote_items, last, calls>>

\* update the rows of the pair, or insert one
UpsWriteStock(p) ==
  /\ proc[p].pc = "ups_write_stock"
  /\ IF Len(proc[p].existingStock) > 0
     THEN /\ stock' = UpdateStockByKey(stock, proc[p].productId, proc[p].warehouse,
                                       proc[p].quantity)
          /\ proc' = Goto(p, "done")
     ELSE IF ~StockInsertAllowed(stock, proc[p].productId, proc[p].warehouse)
     THEN /\ proc' = Fail(p, "UniqueViolation")
          /\ stock' = stock
     ELSE /\ stock' = InsertStock(stock, proc[p].productId, proc[p].warehouse,
                                  proc[p].quantity)
          /\ proc' = Goto(p, "done")
  /\ UNCHANGED <<substitutes, orders, order_items, products, pricing, transfers, quotes, quote_items, last, calls>>

NextSteps ==
  \E p \in Procs :
    \/ \E i \in ConfirmInputs : RecvSelectTransfer(p, i[1], i[2], i[3])
    \/ RecvSelectUser(p)
    \/ RecvUpdateTransfer(p)
    \/ RecvSelectDest(p)
    \/ RecvWriteDest(p)
    \/ RecvSelectSource(p)
    \/ RecvWriteSource(p)
    \/ \E i \in UpdateStockInputs : UpsSelectProduct(p, i[1], i[2], i[3])
    \/ UpsSelectStock(p)
    \/ UpsWriteStock(p)

SpecSteps == InitSteps /\ [][NextSteps]_vars

\* a reception that has written part of its effects: the transfer is marked
\* received while the stock writes are still to come, or will never come
ReceptionPartial(p) ==
  /\ proc[p].op = "confirmTransferReception"
  /\ \/ proc[p].pc \in {"recv_select_dest", "recv_write_dest",
                        "recv_select_source", "recv_write_source"}
     \/ proc[p].pc = "failed" /\ proc[p].err = "UniqueViolation"

\* C2: the writes of a successful confirmTransferReception are applied as a
\* unit: no state exists in which the transfer is 'received' (or the
\* destination increased) and the source not yet decreased, neither while
\* the request runs nor after a later step of it has failed.
C2_ReceptionAtomic == \A p \in Procs : ~ReceptionPartial(p)

----------------------------------------------------------------------------
(* Pricing: per-client pricing rows, order totals, price lookup, quotes *)

\* a price in hundredths, as a multiple of 1/PriceScale of a hundredth:
\* basePrice * (1 - discountPercentage / 100) with the discount in
\* hundredths of a percent is basePrice * (PriceScale - discount) / PriceScale
PriceScale == 10000

\* a number in thousandths written to a numeric(_, 2) column: the store
\* rounds it to hundredths, half away from zero (the numbers here are >= 0)
ToNumeric2(x) == (x + 5) \div 10

\* select from clientProductPricingTable where client_id and product_id
\* match: the rows in id order
SelectPricing(pr, clientId, productId) ==
  LET ids == {i \in DOMAIN pr : pr[i].client_id = clientId /\ pr[i].product_id = productId}
      F[S \in SUBSET ids] ==
        IF S = {} THEN <<>>
        ELSE LET m == CHOOSE x \in S : \A y \in S : x >= y
             IN Append(F[S \ {m}], pr[m])
  IN F[ids]

\* `stockLimitMonthly || null`
LimitOrNull(stockLimitMonthly) ==
  IF stockLimitMonthly = Null \/ stockLimitMonthly = 0 THEN Null ELSE stockLimitMonthly

\* setClientCustomPricing, run without interruption; customPrice and
\* discountPercentage in thousandths
setClientCustomPricing(prods, pr, clientId, productId, customPrice, discountPercentage, stockLimitMonthly) ==
  IF clientId \notin clientsTable THEN [err |-> "NotFound", pricing |-> pr]
  ELSE IF ~prods[productId].present THEN [err |-> "NotFound", pricing |-> pr]
  ELSE IF Len(SelectPricing(pr, clientId, productId)) > 0
  THEN [err |-> "ok",
        pricing |-> [i \in DOMAIN pr |->
                       IF pr[i].client_id = clientId /\ pr[i].product_id = productId
                       THEN [pr[i] EXCEPT
                               !.custom_price = ToNumeric2(customPrice),
                               !.discount_percentage = ToNumeric2(discountPercentage),
                               !.stock_limit_monthly = LimitOrNull(stockLimitMonthly)]
                       ELSE pr[i]]]
  ELSE [err |-> "ok",
        pricing |-> Append(pr, [client_id |-> clientId, product_id |-> productId,
                                custom_price |-> ToNumeric2(customPrice),
                                discount_percentage |-> ToNumeric2(discountPercentage),
                                stock_limit_monthly |-> LimitOrNull(stockLimitMonthly)])]

FinalPrice_CustomAlways(basePrice, customPricing) ==
  IF Len(customPricing) > 0
  THEN customPricing[1].custom_price * PriceScale
  ELSE basePrice * PriceScale

\* the final price calculateOrderTotal gives a line, from the product's base
\* price (hundredths) and the pricing rows selected
FinalPrice(basePrice, customPricing) ==
  IF Len(customPricing) > 0
  THEN IF customPricing[1].custom_price > 0
       THEN customPricing[1].custom_price * PriceScale
       ELSE IF customPricing[1].discount_percentage > 0
       THEN basePrice * (PriceScale - customPricing[1].discount_percentage)
       ELSE basePrice * PriceScale
  ELSE basePrice * PriceScale

\* the product select of calculateOrderTotal: by id alone
OrderTotalProductFound(prods, productId) == prods[productId].present

\* one line as calculateOrderTotal prices it
CalculatedItem(prods, pr, clientId, item) ==
  LET basePrice == prods[item.productId].base_price
      customPricing == SelectPricing(pr, clientId, item.productId)
      finalPrice == FinalPrice(basePrice, customPricing)
  IN [productId |-> item.productId,
      quantity |-> item.quantity,
      basePrice |-> basePrice * PriceScale,
      customPrice |-> IF Len(customPricing) > 0
                      THEN customPricing[1].custom_price * PriceScale ELSE Null,
      discountPercentage |-> IF Len(customPricing) > 0
                             THEN customPricing[1].discount_percentage ELSE Null,
      finalPrice |-> finalPrice,
      totalPrice |-> finalPrice * item.quantity]

SumTotalPrice(lines) ==
  LET F[n \in 0..Len(lines)] == IF n = 0 THEN 0 ELSE F[n - 1] + lines[n].totalPrice
  IN F[Len(lines)]

RoundToCents_Up(amount) == (amount + PriceScale - 1) \div PriceScale

\* Math.round(totalAmount * 100) / 100, in hundredths.  At an exact half of a
\* hundredth the doubles of the handler may land on either side; the exact
\* value is rounded up here.
RoundToCents(amount) == (2 * amount + PriceScale) \div (2 * PriceScale)

\* calculateOrderTotal: the first item whose product is not found throws
calculateOrderTotal(prods, pr, clientId, items) ==
  IF clientId \notin clientsTable
  THEN [err |-> "NotFound", items |-> <<>>, totalAmount |-> Null]
  ELSE IF \E i \in DOMAIN items : ~OrderTotalProductFound(prods, items[i].productId)
  THEN [err |-> "NotFound", items |-> <<>>, totalAmount |-> Null]
  ELSE LET calculatedItems ==
             [i \in DOMAIN items |-> CalculatedItem(prods, pr, clientId, items[i])]
       IN [err |-> "ok", items |-> calculatedItems,
           totalAmount |-> RoundToCents(SumTotalPrice(calculatedItems))]

\* getProductPriceForClient
getProductPriceForClient(prods, pr, productId, clientId) ==
  LET product == getProductById(prods, productId)
      customPricing == SelectPricing(pr, clientId, productId)
  IN IF ~product.present
     THEN [err |-> "NotFound", basePrice |-> Null, customPrice |-> Null,
           discountPercentage |-> Null, finalPrice |-> Null]
     ELSE IF Len(customPricing) > 0
     THEN [err |-> "ok", basePrice |-> product.base_price * PriceScale,
           customPrice |-> customPricing[1].custom_price * PriceScale,
           discountPercentage |-> customPricing[1].discount_percentage,
           finalPrice |-> customPricing[1].custom_price * PriceScale]
     ELSE [err |-> "ok", basePrice |-> product.base_price * PriceScale,
           customPrice |-> Null, discountPercentage |-> Null,
           finalPrice |-> product.base_price * PriceScale]

\* the unit price createQuote gives a line, in hundredths
QuoteUnitPrice(basePrice, customPricing) ==
  IF Len(customPricing) > 0 THEN customPricing[1].custom_price ELSE basePrice

\* one validated item of createQuote
ValidatedItem(prods, pr, clientId, item) ==
  LET unitPrice == QuoteUnitPrice(prods[item.product_id].base_price,
                                  SelectPricing(pr, clientId, item.product_id))
  IN [product_id |-> item.product_id, quantity |-> item.quantity,
      unit_price |-> unitPrice, total_price |-> unitPrice * item.quantity]

SumItemTotal(lines) ==
  LET F[n \in 0..Len(lines)] == IF n = 0 THEN 0 ELSE F[n - 1] + lines[n].total_price
  IN F[Len(lines)]

\* createQuote, run without interruption.  The quote number and the share
\* token are random strings and are left out; qr_code holds the quote id it
\* embeds.
createQuote(prods, pr, qs, qis, input) ==
  IF input.client_id \notin clientsTable
  THEN [err |-> "NotFound", quotes |-> qs, quote_items |-> qis]
  ELSE IF ~(/\ input.representative_id \in DOMAIN usersTable
            /\ usersTable[input.representative_id] = "representative")
  THEN [err |-> "NotFound", quotes |-> qs, quote_items |-> qis]
  ELSE IF \E i \in DOMAIN input.items :
            ~getProductById(prods, input.items[i].product_id).present
  THEN [err |-> "NotFound", quotes |-> qs, quote_items |-> qis]
  ELSE LET validatedItems ==
             [i \in DOMAIN input.items |->
                ValidatedItem(prods, pr, input.client_id, input.items[i])]
           quoteId == Len(qs) + 1
           quote == [client_id |-> input.client_id,
                     representative_id |-> input.representative_id,
                     total_amount |-> SumItemTotal(validatedItems),
                     qr_code |-> quoteId,
                     is_converted_to_order |-> FALSE,
                     order_id |-> Null]
       IN [err |-> "ok",
           quotes |-> Append(qs, quote),
           quote_items |-> qis \o [i \in DOMAIN validatedItems |->
                                     [quote_id |-> quoteId] @@ validatedItems[i]]]

----------------------------------------------------------------------------
(* Specification SpecPricing: pricing rows are set, order totals and       *)
(* prices are asked for and quotes are created, one request at a time,     *)
(* over a catalog drawn from a small set.                                  *)

BasePrices == {20000, 9999}

InitPricing ==
  /\ \E b \in BasePrices, a \in BOOLEAN :
       products = (1 :> Product(b, TRUE)) @@ (2 :> Product(10000, a)) @@ (3 :> NoProduct)
  /\ pricing = <<>>
  /\ stock = <<>>
  /\ transfers = <<>>
  /\ quotes = <<>>
  /\ quote_items = <<>>
  /\ substitutes = <<>>
  /\ orders = OneOrder
  /\ order_items = <<>>
  /\ last = [op |-> "none", err |-> "ok"]
  /\ proc = <<>>
  /\ calls = 0

SetClientCustomPricing(clientId, productId, customPrice, discountPercentage, stockLimitMonthly) ==
  LET r == setClientCustomPricing(products, pricing, clientId, productId, customPrice,
                                  discountPercentage, stockLimitMonthly)
  IN /\ Served
     /\ pricing' = r.pricing
     /\ last' = [op |-> "setClientCustomPricing", err |-> r.err,
                 clientId |-> clientId, productId |-> productId,
                 customPrice |-> customPrice,
                 discountPercentage |-> discountPercentage,
                 stockLimitMonthly |-> stockLimitMonthly]
     /\ UNCHANGED <<substitutes, orders, order_items, products, stock, transfers, quotes, quote_items, proc>>

CalculateOrderTotal(clientId, items) ==
  LET r == calculateOrderTotal(products, pricing, clientId, items)
  IN /\ Served
     /\ last' = [op |-> "calculateOrderTotal", err |-> r.err,
                 clientId |-> clientId, items |-> items, result |-> r]
     /\ UNCHANGED <<substitutes, orders, order_items, products, pricing, stock, transfers, quotes, quote_items, proc>>

GetProductPriceForClient(productId, clientId) ==
  LET r == getProductPriceForClient(products, pricing, productId, clientId)
  IN /\ Served
     /\ last' = [op |-> "getProductPriceForClient", err |-> r.err,
                 productId |-> productId, clientId |-> clientId, result |-> r]
     /\ UNCHANGED <<substitutes, orders, order_items, products, pricing, stock, transfers, quotes, quote_items, proc>>

CreateQuote(input) ==
  LET r == createQuote(products, pricing, quotes, quote_items, input)
  IN /\ Served
     /\ quotes' = r.quotes
     /\ quote_items' = r.quote_items
     /\ last' = [op |-> "createQuote", err |-> r.err, input |-> input,
                 quoteId |-> IF r.err = "ok" THEN Len(r.quotes) ELSE Null]
     /\ UNCHANGED <<substitutes, orders, order_items, products, pricing, stock, transfers, proc>>

\* Arguments the callers pass, in thousandths.  The router asks for a
\* positive customPrice: 80.00, and 0.004, which the numeric(10, 2) column
\* stores as 0.00 ("no override").
CustomPrices == {4, 80000}

\* 25 % and no discount
DiscountPercentages == {0, 25000}

SetPricingInputs ==
  ({1} \X {1, 2} \X CustomPrices \X DiscountPercentages \X {Null})
    \cup {<<MissingId, 1, 80000, 0, Null>>, <<1, MissingId, 80000, 0, Null>>}

Item(productId, quantity) == [productId |-> productId, quantity |-> quantity]

ItemLists ==
  {<<Item(1, q)>> : q \in 1..MaxQty}
    \cup {<<Item(2, 1)>>, <<Item(1, MaxQty + 1), Item(2, 1)>>, <<Item(MissingId, 1)>>}

\* the same list with the field names of createQuoteInputSchema
QuoteItems(items) ==
  [i \in DOMAIN items |->
     [product_id |-> items[i].productId, quantity |-> items[i].quantity]]

QuoteInputs ==
  {[client_id |-> 1, representative_id |-> 1, items |-> QuoteItems(items)] :
     items \in ItemLists}
    \cup {[client_id |-> MissingId, representative_id |-> 1, items |-> QuoteItems(<<Item(1, 1)>>)],
          [client_id |-> 1, representative_id |-> 2, items |-> QuoteItems(<<Item(1, 1)>>)]}

NextPricing ==
  \/ \E i \in SetPricingInputs : SetClientCustomPricing(i[1], i[2], i[3], i[4], i[5])
  \/ \E c \in {1, MissingId}, items \in ItemLists : CalculateOrderTotal(c, items)
  \/ \E p \in {1, 2, MissingId}, c \in {1, MissingId} : GetProductPriceForClient(p, c)
  \/ \E input \in QuoteInputs : CreateQuote(input)

SpecPricing == InitPricing /\ [][NextPricing]_vars

----------------------------------------------------------------------------
(* Properties of pricing, checked under SpecPricing.  An order total or a  *)
(* price lookup changes no table, so `last` holds the result for the       *)
(* tables as they are.                                                     *)

\* the pricing rows of (client, product), as a set
PricingRows(clientId, productId) ==
  {i \in DOMAIN pricing :
     pricing[i].client_id = clientId /\ pricing[i].product_id = productId}

\* the three-step policy of the pricing resolver for a row and a base price
\* in hundredths
PolicyPrice(basePrice, row) ==
  IF row.custom_price > 0 THEN row.custom_price * PriceScale
  ELSE IF row.discount_percentage > 0
  THEN basePrice * (PriceScale - row.discount_percentage)
  ELSE basePrice * PriceScale

\* C7: every line priced by calculateOrderTotal has finalPrice = custom_price
\* when a pricing row has custom_price > 0, else basePrice * (1 - discount/100)
\* when the row has a discount > 0, else basePrice; customPrice and
\* discountPercentage are returned exactly when a row exists.
C7_OrderLinePolicy ==
  (last.op = "calculateOrderTotal" /\ last.err = "ok") =>
    /\ Len(last.result.items) = Len(last.items)
    /\ \A i \in DOMAIN last.items :
         LET line == last.result.items[i]
             basePrice == products[last.items[i].productId].base_price
             rows == PricingRows(last.clientId, last.items[i].productId)
         IN /\ line.productId = last.items[i].productId
            /\ line.basePrice = basePrice * PriceScale
            /\ rows = {} =>
                 /\ line.finalPrice = basePrice * PriceScale
                 /\ line.customPrice = Null
                 /\ line.discountPercentage = Null
            /\ \A r \in rows :
                 /\ line.finalPrice = PolicyPrice(basePrice, pricing[r])
                 /\ line.customPrice = pricing[r].custom_price * PriceScale
                 /\ line.discountPercentage = pricing[r].discount_percentage

\* a line priced by the discount of a row without a custom price, and a line
\* priced by the custom price of a row that also has a discount
C7_Witness ==
  /\ last.op = "calculateOrderTotal"
  /\ last.err = "ok"
  /\ \E i \in DOMAIN last.items :
       \E r \in PricingRows(last.clientId, last.items[i].productId) :
         /\ pricing[r].custom_price = 0
         /\ pricing[r].discount_percentage = 2500
         /\ products[last.items[i].productId].base_price = 20000
         /\ last.result.items[i].finalPrice = 15000 * PriceScale
  /\ \E i \in DOMAIN last.items :
       \E r \in PricingRows(last.clientId, last.items[i].productId) :
         /\ pricing[r].custom_price > 0
         /\ pricing[r].discount_percentage > 0
         /\ last.result.items[i].finalPrice = pricing[r].custom_price * PriceScale

\* C8: getProductPriceForClient follows the same policy: for a row whose
\* custom_price is not positive it returns basePrice * (1 - discount/100)
\* when discount > 0 (150 for 25 % off 200) and basePrice otherwise.
C8_LookupFollowsPolicy ==
  (last.op = "getProductPriceForClient" /\ last.err = "ok") =>
    \A r \in PricingRows(last.clientId, last.productId) :
      pricing[r].custom_price <= 0 =>
        last.result.finalPrice
          = PolicyPrice(products[last.productId].base_price, pricing[r])

\* C9: createQuote prices lines as calculateOrderTotal does: the unit_price
\* stored for each line equals the finalPrice of the same (client, product),
\* and the quote total equals the order total of the same item list.
C9_QuotePricedAsOrder ==
  (last.op = "createQuote" /\ last.err = "ok") =>
    LET order == calculateOrderTotal(
                   products, pricing, last.input.client_id,
                   [i \in DOMAIN last.input.items |->
                      Item(last.input.items[i].product_id, last.input.items[i].quantity)])
        lines == SelectSeq(quote_items, LAMBDA qi : qi.quote_id = last.quoteId)
    IN /\ order.err = "ok"
       /\ Len(lines) = Len(order.items)
       /\ \A i \in DOMAIN lines :
            lines[i].unit_price * PriceScale = order.items[i].finalPrice
       /\ quotes[last.quoteId].total_amount = order.totalAmount

\* C10: calculateOrderTotal fails with NotFound, pricing no line, when the
\* client does not exist or any item's product does not exist or is inactive.
C10_InactiveProductNotFound ==
  (/\ last.op = "calculateOrderTotal"
   /\ \/ last.clientId \notin clientsTable
      \/ \E i \in DOMAIN last.items :
           \/ ~products[last.items[i].productId].present
           \/ ~products[last.items[i].productId].is_active)
    => (last.err = "NotFound" /\ last.result.items = <<>>)

----------------------------------------------------------------------------
(* Monthly stock limits: validateStockLimits over the pricing rows and the *)
(* order ledger.  No handler writes ordersTable or orderItemsTable          *)
(* (createOrder is a placeholder), so the ledger is what the store holds   *)
(* when the requests start.  created_at is counted in days from the first  *)
(* day of the current month.                                               *)

\* new Date(now.getFullYear(), now.getMonth(), 1)
monthStart == 0

\* sum(orderItemsTable.quantity) over the join with ordersTable, for the
\* client, the product and the orders created since monthStart; the sum of
\* no rows is NULL, which the handler reads as 0
UsedQuantity(ords, ois, clientId, productId) ==
  LET F[n \in 0..Len(ois)] ==
        IF n = 0 THEN 0
        ELSE IF /\ ois[n].order_id \in DOMAIN ords
                /\ ords[ois[n].order_id].client_id = clientId
                /\ ois[n].product_id = productId
                /\ ords[ois[n].order_id].created_at >= monthStart
             THEN F[n - 1] + ois[n].quantity
             ELSE F[n - 1]
  IN F[Len(ois)]

\* `customPricing.length > 0 && customPricing[0].stock_limit_monthly`
HasMonthlyLimit(customPricing) ==
  /\ Len(customPricing) > 0
  /\ customPricing[1].stock_limit_monthly # Null
  /\ customPricing[1].stock_limit_monthly # 0

LimitExceeded_AtLimit(quantity, remainingLimit) == quantity >= remainingLimit

\* `item.quantity > remainingLimit`
LimitExceeded(quantity, remainingLimit) == quantity > remainingLimit

ReportedRemaining_Raw(remainingLimit) == remainingLimit

\* `Math.max(0, remainingLimit)`
ReportedRemaining(remainingLimit) == Max(0, remainingLimit)

\* the violations the loop of validateStockLimits has pushed after the
\* first n items
LimitViolations(pr, ords, ois, clientId, items) ==
  LET F[n \in 0..Len(items)] ==
        IF n = 0 THEN <<>>
        ELSE LET item == items[n]
                 customPricing == SelectPricing(pr, clientId, item.productId)
             IN IF HasMonthlyLimit(customPricing)
                THEN LET monthlyLimit == customPricing[1].stock_limit_monthly
                         usedQuantity == UsedQuantity(ords, ois, clientId, item.productId)
                         remainingLimit == monthlyLimit - usedQuantity
                     IN IF LimitExceeded(item.quantity, remainingLimit)
                        THEN Append(F[n - 1],
                                    [productId |-> item.productId,
                                     requestedQuantity |-> item.quantity,
                                     remainingLimit |-> ReportedRemaining(remainingLimit),
                                     monthlyLimit |-> monthlyLimit])
                        ELSE F[n - 1]
                ELSE F[n - 1]
  IN F[Len(items)]

\* validateStockLimits
validateStockLimits(pr, ords, ois, clientId, items) ==
  IF clientId \notin clientsTable
  THEN [err |-> "NotFound", isValid |-> FALSE, violations |-> <<>>]
  ELSE LET violations == LimitViolations(pr, ords, ois, clientId, items)
       IN [err |-> "ok", isValid |-> Len(violations) = 0, violations |-> violations]

\* the order-item rows after createQuote: it inserts into quotesTable and
\* quoteItemsTable only
OrderItemsAfterQuote_Booked(ois, qis) ==
  ois \o [i \in DOMAIN qis |->
            [order_id |-> 1, product_id |-> qis[i].product_id, quantity |-> qis[i].quantity]]

OrderItemsAfterQuote(ois, qis) == ois

----------------------------------------------------------------------------
(* Specification SpecLimits: limits are set, item lists are validated and  *)
(* quotes are created, one request at a time, over a ledger of two orders  *)
(* drawn from a small set.                                                 *)

InitLimits ==
  /\ products = (1 :> Product(20000, TRUE)) @@ (2 :> Product(10000, TRUE)) @@ (3 :> NoProduct)
  /\ pricing = <<>>
  /\ stock = <<>>
  /\ transfers = <<>>
  /\ quotes = <<>>
  /\ quote_items = <<>>
  /\ substitutes = <<>>
  /\ \E c \in clientsTable, d \in {monthStart - 1, monthStart} :
       orders = <<[client_id |-> 1, created_at |-> monthStart],
                  [client_id |-> c, created_at |-> d]>>
  /\ \E p \in {1, 2}, q1 \in 1..MaxQty, q2 \in 1..MaxQty :
       order_items = <<[order_id |-> 1, product_id |-> 1, quantity |-> q1],
                       [order_id |-> 2, product_id |-> p, quantity |-> q2]>>
  /\ last = [op |-> "none", err |-> "ok"]
  /\ proc = <<>>
  /\ calls = 0

ValidateStockLimits(clientId, items) ==
  LET r == validateStockLimits(pricing, orders, order_items, clientId, items)
  IN /\ Served
     /\ last' = [op |-> "validateStockLimits", err |-> r.err,
                 clientId |-> clientId, items |-> items, result |-> r]
     /\ UNCHANGED <<substitutes, orders, order_items, products, pricing, stock, transfers, quotes,
                    quote_items, proc>>

\* createQuote as a request of SpecLimits, with the ledger it leaves
CreateQuoteLimits(input) ==
  LET r == createQuote(products, pricing, quotes, quote_items, input)
  IN /\ Served
     /\ quotes' = r.quotes
     /\ quote_items' = r.quote_items
     /\ order_items' = OrderItemsAfterQuote(order_items,
                                            SubSeq(r.quote_items, Len(quote_items) + 1,
                                                   Len(r.quote_items)))
     /\ last' = [op |-> "createQuote", err |-> r.err, input |-> input,
                 quoteId |-> IF r.err = "ok" THEN Len(r.quotes) ELSE Null]
     /\ UNCHANGED <<substitutes, orders, products, pricing, stock, transfers, proc>>

\* monthly limits the callers pass; Null for an omitted limit
StockLimits == {Null} \cup (1..(MaxQty + 1))

SetLimitInputs ==
  ({1} \X {1} \X {80000} \X {0} \X StockLimits) \cup {<<1, 2, 80000, 0, 1>>}

\* item lists with quantities up to one more than an order line holds
LimitItemLists ==
  {<<Item(1, q)>> : q \in 1..(MaxQty + 1)}
    \cup {<<Item(2, 1)>>, <<Item(1, MaxQty + 1), Item(2, 1)>>, <<Item(1, 1), Item(1, 1)>>}

ValidateInputs ==
  ({1} \X LimitItemLists) \cup ({2, MissingId} \X {<<Item(1, 1)>>})

NextLimits ==
  \/ \E i \in SetLimitInputs : SetClientCustomPricing(i[1], i[2], i[3], i[4], i[5])
  \/ \E i \in ValidateInputs : ValidateStockLimits(i[1], i[2])
  \/ CalculateOrderTotal(1, <<Item(1, 1)>>)
  \/ \E items \in {<<Item(1, 1)>>, <<Item(1, MaxQty + 1), Item(2, 1)>>} :
       CreateQuoteLimits([client_id |-> 1, representative_id |-> 1,
                          items |-> QuoteItems(items)])

SpecLimits == InitLimits /\ [][NextLimits]_vars

----------------------------------------------------------------------------
(* Properties of the stock limits, checked under SpecLimits.  A validation *)
(* changes no table, so `last` holds the result for the tables as they     *)
(* are.                                                                    *)

ValidateOk == last.op = "validateStockLimits" /\ last.err = "ok"

\* the quantity of the product on the client's orders created on or after
\* the first day of the current month
UsedThisMonth(clientId, productId) ==
  LET rows == {n \in DOMAIN order_items :
                 /\ order_items[n].product_id = productId
                 /\ orders[order_items[n].order_id].client_id = clientId
                 /\ orders[order_items[n].order_id].created_at >= monthStart}
      Sum[S \in SUBSET rows] ==
        IF S = {} THEN 0
        ELSE LET n == CHOOSE x \in S : TRUE
             IN order_items[n].quantity + Sum[S \ {n}]
  IN Sum[rows]

\* the monthly limits configured for (client, product): of no row, or of a
\* row without a limit, none
MonthlyLimits(clientId, productId) ==
  {pricing[r].stock_limit_monthly : r \in PricingRows(clientId, productId)} \ {Null}

\* the lines of the validated list that are over their limit
LinesOverLimit ==
  {i \in DOMAIN last.items :
     \E l \in MonthlyLimits(last.clientId, last.items[i].productId) :
       last.items[i].quantity > l - UsedThisMonth(last.clientId, last.items[i].productId)}

\* C11: validateStockLimits records a violation for a line exactly when a
\* pricing row of (client, product) has a monthly limit and the requested
\* quantity exceeds limit - used, used being the quantity on the client's
\* orders of this month; the violations come in line order, one per such line,
\* and isValid is true exactly when there is none.
C11_ViolationIffOverLimit ==
  ValidateOk =>
    /\ last.result.isValid = (last.result.violations = <<>>)
    /\ Len(last.result.violations) = Cardinality(LinesOverLimit)
    /\ \A i \in LinesOverLimit :
         LET k == Cardinality({j \in LinesOverLimit : j <= i})
         IN /\ last.result.violations[k].productId = last.items[i].productId
            /\ last.result.violations[k].requestedQuantity = last.items[i].quantity
            /\ last.result.violations[k].monthlyLimit
                 \in MonthlyLimits(last.clientId, last.items[i].productId)

\* a list with a line over its limit and a line of a product without limit,
\* validated while another client's or last month's order exists
C11_Witness ==
  /\ ValidateOk
  /\ Len(last.items) = 2
  /\ LinesOverLimit = {1}
  /\ MonthlyLimits(last.clientId, last.items[2].productId) = {}
  /\ Len(last.result.violations) = 1
  /\ \E o \in DOMAIN orders :
       orders[o].client_id # last.clientId \/ orders[o].created_at < monthStart

\* C12: every violation reports remainingLimit = max(0, monthlyLimit - used),
\* never a negative number; when the usage already exceeds the limit every
\* requested line of that product is a violation reporting 0.
C12_RemainingFloored ==
  ValidateOk =>
    /\ \A k \in DOMAIN last.result.violations :
         LET v == last.result.violations[k]
         IN /\ v.remainingLimit >= 0
            /\ v.remainingLimit
                 = Max(0, v.monthlyLimit - UsedThisMonth(last.clientId, v.productId))
    /\ \A i \in DOMAIN last.items :
         (\E l \in MonthlyLimits(last.clientId, last.items[i].productId) :
            UsedThisMonth(last.clientId, last.items[i].productId) > l)
           => \E k \in DOMAIN last.result.violations :
                /\ last.result.violations[k].productId = last.items[i].productId
                /\ last.result.violations[k].remainingLimit = 0

\* a violation of a client whose usage (2) is already over the limit (1)
C12_Witness ==
  /\ ValidateOk
  /\ \E k \in DOMAIN last.result.violations :
       LET v == last.result.violations[k]
       IN /\ v.monthlyLimit < UsedThisMonth(last.clientId, v.productId)
          /\ v.remainingLimit = 0

\* the tables of the store
tables ==
  <<products, pricing, stock, transfers, quotes, quote_items, orders, order_items,
    substitutes>>

\* C19: a createQuote call leaves the result of validateStockLimits as it was
\* for every client and item list, and writes no order or order-item row;
\* validateStockLimits and calculateOrderTotal change no table.
C19_QuoteLeavesLimits ==
  [][/\ last'.op = "createQuote" =>
          /\ UNCHANGED <<orders, order_items>>
          /\ \A i \in ValidateInputs :
               validateStockLimits(pricing', orders', order_items', i[1], i[2])
                 = validateStockLimits(pricing, orders, order_items, i[1], i[2])
     /\ last'.op \in {"validateStockLimits", "calculateOrderTotal"} => UNCHANGED tables]_vars

\* a quote created for a product whose monthly limit the quoted quantity,
\* had it been ordered, would exceed
C19_Witness ==
  /\ last.op = "createQuote"
  /\ last.err = "ok"
  /\ \E n \in DOMAIN quote_items :
       /\ quote_items[n].quote_id = last.quoteId
       /\ \E l \in MonthlyLimits(last.input.client_id, quote_items[n].product_id) :
            /\ UsedThisMonth(last.input.client_id, quote_items[n].product_id) <= l
            /\ UsedThisMonth(last.input.client_id, quote_items[n].product_id)
                 + quote_items[n].quantity > l

----------------------------------------------------------------------------
(* Specification SpecUpsert: setClientCustomPricing statement by           *)
(* statement.  The handler awaits each statement and opens no transaction, *)
(* so the statements of requests in flight interleave; each process serves *)
(* one request.                                                            *)

\* the update of setClientCustomPricing: every row of the pair is set
UpdatePricingByKey(pr, clientId, productId, customPrice, discountPercentage, stockLimitMonthly) ==
  [i \in DOMAIN pr |->
     IF pr[i].client_id = clientId /\ pr[i].product_id = productId
     THEN [pr[i] EXCEPT !.custom_price = ToNumeric2(customPrice),
                        !.discount_percentage = ToNumeric2(discountPercentage),
                        !.stock_limit_monthly = LimitOrNull(stockLimitMonthly)]
     ELSE pr[i]]

PricingInsertAllowed_Always(pr, clientId, productId) == TRUE

\* uniqueClientProduct: the store rejects a second row for the pair
PricingInsertAllowed(pr, clientId, productId) ==
  Len(SelectPricing(pr, clientId, productId)) = 0

\* the insert of setClientCustomPricing
InsertPricing(pr, clientId, productId, customPrice, discountPercentage, stockLimitMonthly) ==
  Append(pr, [client_id |-> clientId, product_id |-> productId,
              custom_price |-> ToNumeric2(customPrice),
              discount_percentage |-> ToNumeric2(discountPercentage),
              stock_limit_monthly |-> LimitOrNull(stockLimitMonthly)])

InitUpsert ==
  /\ products = (1 :> Product(20000, TRUE)) @@ (2 :> Product(10000, TRUE)) @@ (3 :> NoProduct)
  /\ pricing \in {<<>>, InsertPricing(<<>>, 1, 1, 80000, 0, MaxQty)}
  /\ stock = <<>>
  /\ transfers = <<>>
  /\ quotes = <<>>
  /\ quote_items = <<>>
  /\ substitutes = <<>>
  /\ orders = OneOrder
  /\ order_items = <<>>
  /\ last = [op |-> "none", err |-> "ok"]
  /\ proc = [p \in Procs |-> Idle]
  /\ calls = 0

\* setClientCustomPricing: select the client
ScpSelectClient(p, clientId, productId, customPrice, discountPercentage, stockLimitMonthly) ==
  LET call == [pc |-> "scp_select_product", op |-> "setClientCustomPricing", err |-> "ok",
               clientId |-> clientId, productId |-> productId,
               customPrice |-> customPrice, discountPercentage |-> discountPercentage,
               stockLimitMonthly |-> stockLimitMonthly]
  IN /\ proc[p].pc = "idle"
     /\ proc' = [proc EXCEPT ![p] =
                   IF clientId \notin clientsTable
                   THEN [call EXCEPT !.pc = "failed", !.err = "NotFound"]
                   ELSE call]
     /\ UNCHANGED <<tables, last, calls>>

\* select the product
ScpSelectProduct(p) ==
  /\ proc[p].pc = "scp_select_product"
  /\ proc' = IF ~products[proc[p].productId].present
             THEN Fail(p, "NotFound")
             ELSE Goto(p, "scp_select_pricing")
  /\ UNCHANGED <<tables, last, calls>>

\* select the pricing rows of the pair
ScpSelectPricing(p) ==
  /\ proc[p].pc = "scp_select_pricing"
  /\ proc' = [proc EXCEPT ![p] =
                [existingPricing |-> SelectPricing(pricing, proc[p].clientId,
                                                   proc[p].productId)]
                  @@ [proc[p] EXCEPT !.pc = "scp_write"]]
  /\ UNCHANGED <<tables, last, calls>>

\* update the rows of the pair, or insert one
ScpWrite(p) ==
  /\ proc[p].pc = "scp_write"
  /\ IF Len(proc[p].existingPricing) > 0
     THEN /\ pricing' = UpdatePricingByKey(pricing, proc[p].clientId, proc[p].productId,
                                           proc[p].customPrice, proc[p].discountPercentage,
                                           proc[p].stockLimitMonthly)
          /\ proc' = Goto(p, "done")
     ELSE IF ~PricingInsertAllowed(pricing, proc[p].clientId, proc[p].productId)
     THEN /\ proc' = Fail(p, "UniqueViolation")
          /\ pricing' = pricing
     ELSE /\ pricing' = InsertPricing(pricing, proc[p].clientId, proc[p].productId,
                                      proc[p].customPrice, proc[p].discountPercentage,
                                      proc[p].stockLimitMonthly)
          /\ proc' = Goto(p, "done")
  /\ UNCHANGED <<substitutes, orders, order_items, products, stock, transfers, quotes, quote_items,
                 last, calls>>

UpsertInputs ==
  ({1} \X {1, 2} \X CustomPrices \X {0} \X {Null, MaxQty + 1})
    \cup {<<MissingId, 1, 80000, 0, Null>>, <<1, MissingId, 80000, 0, Null>>}

NextUpsert ==
  \E p \in Procs :
    \/ \E i \in UpsertInputs : ScpSelectClient(p, i[1], i[2], i[3], i[4], i[5])
    \/ ScpSelectProduct(p)
    \/ ScpSelectPricing(p)
    \/ ScpWrite(p)

SpecUpsert == InitUpsert /\ [][NextUpsert]_vars

\* the (client, product) pairs of the model
PricingPairs == clientsTable \X {1, 2}

\* C13: at every moment, whatever the interleaving of setClientCustomPricing
\* requests, there is at most one pricing row per (client, product); a request
\* that finds a row for its pair adds none and leaves that row with the
\* custom price, the discount and the monthly limit it was given, no limit
\* when none was given.
C13_OnePricingRowPerPair ==
  /\ [](\A k \in PricingPairs : Cardinality(PricingRows(k[1], k[2])) <= 1)
  /\ [][\A p \in Procs :
          (/\ proc[p].pc = "scp_write"
           /\ proc'[p].pc = "done"
           /\ PricingRows(proc[p].clientId, proc[p].productId) # {})
            => /\ Len(pricing') = Len(pricing)
               /\ \A r \in PricingRows(proc[p].clientId, proc[p].productId) :
                    /\ pricing'[r].client_id = proc[p].clientId
                    /\ pricing'[r].product_id = proc[p].productId
                    /\ pricing'[r].custom_price = ToNumeric2(proc[p].customPrice)
                    /\ pricing'[r].discount_percentage = ToNumeric2(proc[p].discountPercentage)
                    /\ pricing'[r].stock_limit_monthly = proc[p].stockLimitMonthly]_vars

\* two requests for the same new pair have both found no row; one has
\* inserted, the other has met the unique constraint
C13_Witness ==
  \E p, q \in Procs :
    /\ proc[p].op = "setClientCustomPricing" /\ proc[p].pc = "done"
    /\ Len(proc[p].existingPricing) = 0
    /\ proc[q].op = "setClientCustomPricing" /\ proc[q].pc = "failed"
    /\ proc[q].err = "UniqueViolation"
    /\ proc[q].clientId = proc[p].clientId /\ proc[q].productId = proc[p].productId
    /\ Cardinality(PricingRows(proc[p].clientId, proc[p].productId)) = 1

----------------------------------------------------------------------------
(* Uniqueness of stock rows, checked under SpecSteps *)

\* the stock rows of (product, warehouse), as a set
StockRows(productId, warehouse) ==
  {i \in DOMAIN stock :
     stock[i].product_id = productId /\ stock[i].warehouse = warehouse}

\* C14: at every moment, whatever the interleaving of updateProductStock and
\* confirmTransferReception requests, there is at most one stock row per
\* (product, warehouse); a step adds a row only for a pair that had none, and
\* an updateProductStock that meets a row for its pair sets that row's
\* quantity to the one given and adds no row.
C14_OneStockRowPerPair ==
  /\ [](\A p \in {1, 2}, w \in warehouseEnum : Cardinality(StockRows(p, w)) <= 1)
  /\ [][/\ Len(stock') >= Len(stock)
        /\ \A i \in DOMAIN stock' :
             i \notin DOMAIN stock => StockRows(stock'[i].product_id, stock'[i].warehouse) = {}
        /\ \A p \in Procs :
             (/\ proc[p].pc = "ups_write_stock"
              /\ proc'[p].pc = "done"
              /\ StockRows(proc[p].productId, proc[p].warehouse) # {})
               => /\ Len(stock') = Len(stock)
                  /\ \A r \in StockRows(proc[p].productId, proc[p].warehouse) :
                       stock'[r].quantity = proc[p].quantity]_vars

\* an updateProductStock and a reception have both found no row for the
\* destination pair; one has inserted it, the other has met the unique
\* constraint
C14_Witness ==
  \E p, q \in Procs :
    /\ proc[p].pc = "failed" /\ proc[p].err = "UniqueViolation"
    /\ proc[q].op # proc[p].op
    /\ proc[q].op \in {"updateProductStock", "confirmTransferReception"}
    /\ proc[q].pc \in {"done", "recv_select_source", "recv_write_source"}
    /\ Cardinality(StockRows(1, "ibn_tachfine")) = 1

----------------------------------------------------------------------------
(* Failing writes, checked under SpecSteps *)

\* C15: a failing write operation leaves nothing behind: a
\* confirmTransferReception that fails has changed neither the transfer row
\* nor a stock row, that is, it has failed before its first write (the
\* update of the transfer, which precedes the select of the destination row).
C15_FailureLeavesNothing ==
  \A p \in Procs :
    (proc[p].op = "confirmTransferReception" /\ proc[p].pc = "failed")
      => "existingStock" \notin DOMAIN proc[p]

----------------------------------------------------------------------------
(* Creation, status updates and the pending-reception query, checked under *)
(* Spec                                                                    *)

\* C16: a successful createTransferRequest adds exactly one transfer, with
\* the order, product, warehouses and requested quantity given,
\* quantity_prepared 0, status 'pending', requested_by set and prepared_by and
\* received_by empty, and leaves the other transfers alone; it succeeds
\* exactly when the order, the product and the requesting user exist, fails
\* with NotFound otherwise, and then adds no transfer.
C16_CreatePersistsPending ==
  [][last'.op = "createTransferRequest" =>
       /\ (last'.err = "ok") <=> /\ last'.orderId \in DOMAIN orders
                                 /\ products[last'.productId].present
                                 /\ last'.requestedBy \in DOMAIN usersTable
       /\ last'.err # "ok" => (last'.err = "NotFound" /\ transfers' = transfers)
       /\ last'.err = "ok" =>
            /\ Len(transfers') = Len(transfers) + 1
            /\ \A t \in DOMAIN transfers : transfers'[t] = transfers[t]
            /\ LET row == transfers'[Len(transfers')]
               IN /\ row.order_id = last'.orderId
                  /\ row.product_id = last'.productId
                  /\ row.from_warehouse = last'.fromWarehouse
                  /\ row.to_warehouse = last'.toWarehouse
                  /\ row.quantity_requested = last'.quantity
                  /\ row.quantity_prepared = 0
                  /\ row.status = "pending"
                  /\ row.requested_by = last'.requestedBy
                  /\ row.prepared_by = Null
                  /\ row.received_by = Null
                  /\ ~row.prepared_at
                  /\ ~row.received_at]_vars

\* a second transfer created after the first has moved on
C16_Witness ==
  /\ last.op = "createTransferRequest"
  /\ last.err = "ok"
  /\ Len(transfers) = 2
  /\ transfers[1].status # "pending"
  /\ transfers[2].status = "pending"
  /\ transfers[2].requested_by = last.requestedBy

PreparationStatuses == {"in_preparation", "ready_to_ship"}

\* C17: a successful updateTransferRequestStatus sets prepared_by to the
\* acting user and prepared_at exactly when the new status is in_preparation
\* or ready_to_ship and leaves both as they were for every other status;
\* quantity_prepared changes only when a prepared quantity is supplied and the
\* new status is in_preparation, ready_to_ship or shipped, and is then the
\* quantity supplied; the operation changes no stock row and no other
\* transfer.
C17_StatusUpdateFrame ==
  [][last'.op = "updateTransferRequestStatus" =>
       /\ stock' = stock
       /\ last'.err # "ok" => transfers' = transfers
       /\ last'.err = "ok" =>
            LET old == transfers[last'.transferId]
                new == transfers'[last'.transferId]
                supplied == /\ last'.quantityPrepared # Null
                            /\ last'.status \in PreparationStatuses \cup {"shipped"}
            IN /\ \A t \in DOMAIN transfers \ {last'.transferId} : transfers'[t] = transfers[t]
               /\ last'.status \in PreparationStatuses =>
                    (new.prepared_by = last'.updatedBy /\ new.prepared_at)
               /\ last'.status \notin PreparationStatuses =>
                    (new.prepared_by = old.prepared_by /\ new.prepared_at = old.prepared_at)
               /\ supplied => new.quantity_prepared = last'.quantityPrepared
               /\ ~supplied => new.quantity_prepared = old.quantity_prepared
               /\ new.received_by = old.received_by
               /\ new.quantity_requested = old.quantity_requested]_vars

\* a transfer shipped with a prepared quantity, never having been prepared:
\* the quantity is recorded and no preparer is
C17_Witness ==
  /\ last.op = "updateTransferRequestStatus"
  /\ last.err = "ok"
  /\ last.status = "shipped"
  /\ last.quantityPrepared = MaxQty
  /\ transfers[last.transferId].quantity_prepared = MaxQty
  /\ transfers[last.transferId].prepared_by = Null
  /\ ~transfers[last.transferId].prepared_at

\* C20: the pending-reception query returns exactly the transfers bound for
\* ibn_tachfine whose status is 'shipped' or 'ready_to_ship'; a received,
\* pending, in_preparation or cancelled transfer, or one bound for another
\* warehouse, is not returned.
C20_PendingReceptionQuery ==
  last.op = "getPendingTransferRequestsForIbnTachfine" =>
    /\ last.result \subseteq DOMAIN transfers
    /\ \A t \in DOMAIN transfers :
         t \in last.result <=> /\ transfers[t].to_warehouse = "ibn_tachfine"
                               /\ transfers[t].status \in {"shipped", "ready_to_ship"}
    /\ \A t \in DOMAIN transfers :
         \/ transfers[t].status \in {"received", "pending", "in_preparation", "cancelled"}
         \/ transfers[t].to_warehouse # "ibn_tachfine"
         => t \notin last.result

\* the query has returned a transfer and left out another, which is bound
\* for la_villette or still pending
C20_Witness ==
  /\ last.op = "getPendingTransferRequestsForIbnTachfine"
  /\ last.result # {}
  /\ \E t \in DOMAIN transfers :
       /\ t \notin last.result
       /\ transfers[t].to_warehouse = "la_villette" \/ transfers[t].status = "pending"

----------------------------------------------------------------------------
(* The order total, checked under SpecPricing *)

\* the sum of finalPrice * quantity over the lines of the last result
LinesTotal ==
  LET lines == last.result.items
      F[n \in 0..Len(lines)] ==
        IF n = 0 THEN 0 ELSE F[n - 1] + lines[n].finalPrice * lines[n].quantity
  IN F[Len(lines)]

\* C18: the totalAmount of calculateOrderTotal is the sum over the lines of
\* finalPrice * quantity rounded to the nearest hundredth, once, at the end;
\* every line's totalPrice is finalPrice * quantity, unrounded.  (At an exact
\* half of a hundredth either neighbour counts as the rounded value.)
C18_TotalRoundedOnce ==
  (last.op = "calculateOrderTotal" /\ last.err = "ok") =>
    /\ \A i \in DOMAIN last.result.items :
         /\ last.result.items[i].quantity = last.items[i].quantity
         /\ last.result.items[i].totalPrice
              = last.result.items[i].finalPrice * last.items[i].quantity
    /\ 2 * last.result.totalAmount * PriceScale <= 2 * LinesTotal + PriceScale
    /\ 2 * last.result.totalAmount * PriceScale >= 2 * LinesTotal - PriceScale

\* two lines, one of them for two units at 25 % off 99.99, whose line total
\* 149.985 is not a whole number of hundredths
C18_Witness ==
  /\ last.op = "calculateOrderTotal"
  /\ last.err = "ok"
  /\ Len(last.result.items) = 2
  /\ last.result.items[1].quantity = 2
  /\ last.result.items[1].totalPrice = 149985000
  /\ last.result.items[2].totalPrice = 8000 * PriceScale
  /\ last.result.totalAmount \in {22998, 22999}

----------------------------------------------------------------------------
(* Product substitutes: getProductSubstitutes over productSubstitutesTable. *)
(* No handler writes the table, so it is what the store holds when the      *)
(* requests start.                                                          *)

\* `.limit(5)`
SubstituteLimit == 5

\* the ids of the rows of productSubstitutesTable for the product
SelectSubstitutes(subs, productId) ==
  {i \in DOMAIN subs : subs[i].product_id = productId}

\* `.orderBy(asc(priority))`: every order of the rows that is ascending in
\* priority; the store leaves the order of rows of equal priority open
OrderedByPriority(subs, ids) ==
  LET F[S \in SUBSET ids] ==
        IF S = {} THEN {<<>>}
        ELSE UNION {{<<m>> \o r : r \in F[S \ {m}]} :
                      m \in {x \in S : \A y \in S : subs[x].priority <= subs[y].priority}}
  IN F[ids]

TakeLimit_All(rows) == rows

\* the first SubstituteLimit rows
TakeLimit(rows) ==
  SubSeq(rows, 1, IF Len(rows) < SubstituteLimit THEN Len(rows) ELSE SubstituteLimit)

\* getProductSubstitutes: the results the store may give, each a sequence of
\* row ids
getProductSubstitutes(prods, subs, productId) ==
  IF ~getProductById(prods, productId).present
  THEN {<<>>}
  ELSE {TakeLimit(rows) : rows \in OrderedByPriority(subs, SelectSubstitutes(subs, productId))}

----------------------------------------------------------------------------
(* Specification SpecSubstitutes: substitutes are asked for, over a table  *)
(* drawn from a small set: up to MaxSubstitutes rows for the active        *)
(* product 1, in any order of priority, and one row for the inactive       *)
(* product 2. No request writes the table, so a second request of a        *)
(* behaviour would see what the first saw: each behaviour serves one.      *)

\* priorities of the rows drawn
Priorities == {1, 2}

InitSubstitutes ==
  /\ products = [i \in 1..(3 + MaxSubstitutes) |->
                   IF i = 2 THEN Product(10000, FALSE)
                   ELSE IF i = 3 THEN NoProduct
                   ELSE Product(20000, TRUE)]
  /\ pricing = <<>>
  /\ stock = <<>>
  /\ transfers = <<>>
  /\ quotes = <<>>
  /\ quote_items = <<>>
  /\ orders = OneOrder
  /\ order_items = <<>>
  /\ \E n \in 0..MaxSubstitutes :
       \E f \in [1..n -> Priorities] :
         substitutes =
           [i \in 1..n |-> [product_id |-> 1, substitute_product_id |-> 3 + i,
                            priority |-> f[i]]]
             \o <<[product_id |-> 2, substitute_product_id |-> 1, priority |-> 1]>>
  /\ last = [op |-> "none", err |-> "ok"]
  /\ proc = <<>>
  /\ calls = 0

GetProductSubstitutes(productId) ==
  /\ calls = 0
  /\ calls' = 1
  /\ \E result \in getProductSubstitutes(products, substitutes, productId) :
       last' = [op |-> "getProductSubstitutes", err |-> "ok",
                productId |-> productId, result |-> result]
  /\ UNCHANGED <<tables, proc>>

NextSubstitutes == \E productId \in {1, 2, MissingId} : GetProductSubstitutes(productId)

SpecSubstitutes == InitSubstitutes /\ [][NextSubstitutes]_vars

\* the row ids of a result
ResultRows == {last.result[k] : k \in DOMAIN last.result}

\* C21: getProductSubstitutes returns at most 5 rows, all of them rows of the
\* product, none twice: as many as there are up to 5, in ascending order of
\* priority, and no row left out has a lower priority than a row returned;
\* for a missing or inactive product it returns none.
C21_SubstitutesLimited ==
  last.op = "getProductSubstitutes" =>
    LET rows == {i \in DOMAIN substitutes : substitutes[i].product_id = last.productId}
    IN /\ Len(last.result) <= 5
       /\ (~products[last.productId].present \/ ~products[last.productId].is_active)
            => last.result = <<>>
       /\ (products[last.productId].present /\ products[last.productId].is_active)
            => /\ ResultRows \subseteq rows
               /\ Cardinality(ResultRows) = Len(last.result)
               /\ Len(last.result) = IF Cardinality(rows) < 5 THEN Cardinality(rows) ELSE 5
               /\ \A j, k \in DOMAIN last.result :
                    j < k => substitutes[last.result[j]].priority
                               <= substitutes[last.result[k]].priority
               /\ \A x \in rows \ ResultRows, y \in ResultRows :
                    substitutes[y].priority <= substitutes[x].priority

\* six rows, the first of the table with the higher priority value: five are
\* returned and the first row is the one left out
C21_Witness ==
  /\ last.op = "getProductSubstitutes"
  /\ last.productId = 1
  /\ Cardinality(SelectSubstitutes(substitutes, 1)) = 6
  /\ Len(last.result) = 5
  /\ substitutes[1].priority = 2
  /\ 1 \notin ResultRows
  /\ substitutes[last.result[5]].priority = 1

----------------------------------------------------------------------------
(* Order status: updateOrderStatus over ordersTable. A timestamp is the     *)
(* number of the request that wrote it; a row is created at time 0.         *)

orderStatusEnum ==
  {"submitted", "validated", "in_preparation", "ready", "shipped", "delivered", "refused"}

\* an order as its insert leaves it: status 'submitted' by default, no stamp
NewOrder ==
  [client_id |-> 1, total_amount |-> 10000, status |-> "submitted",
   validated_by |-> Null, validated_at |-> Null, shipped_at |-> Null,
   delivered_at |-> Null, created_at |-> 0, updated_at |-> 0]

OrderUpdateData_ClearStamps(input, now) ==
  [status |-> input.status, updated_at |-> now,
   validated_by |-> IF input.status = "validated" THEN input.updated_by ELSE Null,
   validated_at |-> IF input.status = "validated" THEN now ELSE Null,
   shipped_at |-> IF input.status = "shipped" THEN now ELSE Null,
   delivered_at |-> IF input.status = "delivered" THEN now ELSE Null]

\* updateData: the columns the update sets
OrderUpdateData(input, now) ==
  [status |-> input.status, updated_at |-> now]
    @@ (IF input.status = "validated"
        THEN [validated_by |-> input.updated_by, validated_at |-> now]
        ELSE IF input.status = "shipped" THEN [shipped_at |-> now]
        ELSE IF input.status = "delivered" THEN [delivered_at |-> now]
        ELSE <<>>)

\* update ordersTable set updateData where id = order_id; validated_by
\* references usersTable, so the store refuses a value that is no user's id
UpdateOrderById(ords, id, data) ==
  IF "validated_by" \in DOMAIN data /\ data.validated_by \notin DOMAIN usersTable
  THEN [err |-> "ForeignKeyViolation", orders |-> ords]
  ELSE [err |-> "ok",
        orders |-> [ords EXCEPT ![id] =
                      [f \in DOMAIN ords[id] |->
                         IF f \in DOMAIN data THEN data[f] ELSE ords[id][f]]]]

updateOrderStatus(ords, input, now) ==
  IF input.order_id \notin DOMAIN ords
  THEN [err |-> "NotFound", orders |-> ords]
  ELSE UpdateOrderById(ords, input.order_id, OrderUpdateData(input, now))

----------------------------------------------------------------------------
(* Specification SpecOrders: status updates on one order.                  *)

InitOrders ==
  /\ products = (1 :> Product(20000, TRUE)) @@ (2 :> Product(10000, FALSE)) @@ (3 :> NoProduct)
  /\ pricing = <<>>
  /\ stock = <<>>
  /\ transfers = <<>>
  /\ quotes = <<>>
  /\ quote_items = <<>>
  /\ substitutes = <<>>
  /\ orders = <<NewOrder>>
  /\ order_items = <<>>
  /\ last = [op |-> "none", err |-> "ok"]
  /\ proc = <<>>
  /\ calls = 0

UpdateOrderStatus(input) ==
  /\ Served
  /\ LET r == updateOrderStatus(orders, input, calls + 1)
     IN /\ orders' = r.orders
        /\ last' = [op |-> "updateOrderStatus", err |-> r.err, input |-> input]
  /\ UNCHANGED <<substitutes, order_items, products, pricing, stock, transfers,
                 quotes, quote_items, proc>>

OrderStatusInputs ==
  [order_id : {1}, status : orderStatusEnum, updated_by : {1, MissingId}]
    \cup {[order_id |-> MissingId, status |-> "shipped", updated_by |-> 1]}

NextOrders == \E input \in OrderStatusInputs : UpdateOrderStatus(input)

SpecOrders == InitOrders /\ [][NextOrders]_vars

\* the stamp columns of an order
OrderStamps == {"validated_by", "validated_at", "shipped_at", "delivered_at"}

\* the stamps of an order after a successful update are as the requested
\* status says: its own stamp written, every other stamp kept
StampsAsClaimed ==
  LET i == last'.input
      old == orders[i.order_id]
      new == orders'[i.order_id]
  IN /\ new.status = i.status
     /\ new.validated_by = IF i.status = "validated" THEN i.updated_by ELSE old.validated_by
     /\ new.validated_at = IF i.status = "validated" THEN calls' ELSE old.validated_at
     /\ new.shipped_at = IF i.status = "shipped" THEN calls' ELSE old.shipped_at
     /\ new.delivered_at = IF i.status = "delivered" THEN calls' ELSE old.delivered_at

\* the columns of the order, other than the ones named, are as they were,
\* and so is every other table
OrderFrame(written) ==
  LET i == last'.input
  IN /\ DOMAIN orders' = DOMAIN orders
     /\ \A o \in DOMAIN orders : o # i.order_id => orders'[o] = orders[o]
     /\ DOMAIN orders'[i.order_id] = DOMAIN orders[i.order_id]
     /\ \A f \in DOMAIN orders[i.order_id] \ written :
          orders'[i.order_id][f] = orders[i.order_id][f]
     /\ UNCHANGED <<products, pricing, stock, transfers, quotes, quote_items,
                    order_items, substitutes>>

\* C22 as stated: every status is accepted from every status of an existing
\* order, the stamps are written as the status says, every other column
\* (all but status and the stamps) is unchanged, and a missing order gives
\* NotFound with nothing changed.
C22_OrderStatusFrame ==
  [][last'.op = "updateOrderStatus" =>
       IF last'.input.order_id \in DOMAIN orders
       THEN /\ last'.err = "ok"
            /\ StampsAsClaimed
            /\ OrderFrame(OrderStamps \cup {"status"})
       ELSE /\ last'.err = "NotFound"
            /\ UNCHANGED tables]_vars

\* C22 amended: a status update of an existing order succeeds from every
\* current status, unless the status is 'validated' and updated_by is no
\* user's id, which the store refuses with nothing changed; a successful
\* update writes status, updated_at and the stamp of the new status, and
\* keeps every other column, so earlier stamps stay; a missing order gives
\* NotFound with nothing changed.
C22_OrderStatusFrameStamped ==
  [][last'.op = "updateOrderStatus" =>
       LET i == last'.input
       IN IF i.order_id \notin DOMAIN orders
          THEN last'.err = "NotFound" /\ UNCHANGED tables
          ELSE IF i.status = "validated" /\ i.updated_by \notin DOMAIN usersTable
          THEN last'.err = "ForeignKeyViolation" /\ UNCHANGED tables
          ELSE /\ last'.err = "ok"
               /\ StampsAsClaimed
               /\ orders'[i.order_id].updated_at = calls'
               /\ OrderFrame(OrderStamps \cup {"status", "updated_at"})]_vars

\* validated by user 1, then shipped: the validation stamps are still there
C22_Witness ==
  /\ last.op = "updateOrderStatus"
  /\ last.err = "ok"
  /\ last.input.status = "shipped"
  /\ orders[1].status = "shipped"
  /\ orders[1].validated_by = 1
  /\ orders[1].validated_at # Null
  /\ orders[1].validated_at < orders[1].shipped_at
  /\ orders[1].delivered_at = Null

----------------------------------------------------------------------------
(* Missing transfers and users, checked under Spec *)

\* the request served is a status update or a reception whose transfer or
\* whose acting user does not exist
TransferOrUserMissing ==
  \/ /\ last'.op = "updateTransferRequestStatus"
     /\ last'.transferId \notin DOMAIN transfers \/ last'.updatedBy \notin DOMAIN usersTable
  \/ /\ last'.op = "confirmTransferReception"
     /\ last'.transferId \notin DOMAIN transfers \/ last'.receivedBy \notin DOMAIN usersTable

\* C23 as stated: updateTransferRequestStatus and confirmTransferReception
\* fail with NotFound when the transfer or the acting user does not exist,
\* and then change neither a transfer nor a stock row.
C23_MissingIsNotFound ==
  [][TransferOrUserMissing =>
       (/\ last'.err = "NotFound"
        /\ transfers' = transfers
        /\ stock' = stock)]_vars

\* C23 amended: such a request fails and changes neither a transfer nor a
\* stock row; the failure is NotFound, except that a reception by an unknown
\* user of an existing transfer that is not 'shipped' fails with
\* PreconditionFailed, the status being tested before the user.
C23_MissingFailsInCheckOrder ==
  [][TransferOrUserMissing =>
       (/\ last'.err =
             IF /\ last'.op = "confirmTransferReception"
                /\ last'.transferId \in DOMAIN transfers
                /\ transfers[last'.transferId].status # "shipped"
             THEN "PreconditionFailed" ELSE "NotFound"
        /\ transfers' = transfers
        /\ stock' = stock)]_vars

\* a shipped transfer stays 'shipped' after a reception attempt by an
\* unknown user
C23_Witness ==
  /\ last.op = "confirmTransferReception"
  /\ last.err = "NotFound"
  /\ last.receivedBy \notin DOMAIN usersTable
  /\ last.transferId \in DOMAIN transfers
  /\ transfers[last.transferId].status = "shipped"
  /\ transfers[last.transferId].received_by = Null

----------------------------------------------------------------------------
(* The received status, checked under Spec *)

\* C25: over a sequence of requests served one at a time, a transfer that is
\* 'received' keeps that status in every later step (so that no later
\* reception can pass the status test and adjust stock for it again).
C25_ReceivedIsTerminal ==
  [][\A t \in DOMAIN transfers :
       transfers[t].status = "received" => transfers'[t].status = "received"]_vars

\* C26: a transfer with status 'received' has received_by and received_at
\* set, the status being reached only through confirmTransferReception.
C26_ReceivedIsStamped ==
  \A t \in DOMAIN transfers :
    transfers[t].status = "received"
      => transfers[t].received_by # Null /\ transfers[t].received_at

\* the product's stock over all warehouses
TotalStock(st, p) ==
  LET RECURSIVE Sum(_)
      Sum(n) == IF n = 0 THEN 0
                ELSE Sum(n - 1) + (IF st[n].product_id = p THEN st[n].quantity ELSE 0)
  IN Sum(Len(st))

\* C28: a successful confirmTransferReception between distinct warehouses
\* leaves the product's total stock as it was when a source row holds at
\* least the quantity received, raises it when the source row is missing or
\* holds less, and never lowers it.
C28_TotalStockConserved ==
  [][(/\ ConfirmOk
      /\ transfers[last'.transferId].from_warehouse # transfers[last'.transferId].to_warehouse)
       => LET p == transfers[last'.transferId].product_id
              q == last'.quantityReceived
              source == StockQuantity(stock, p, transfers[last'.transferId].from_warehouse)
              before == TotalStock(stock, p)
              after == TotalStock(stock', p)
          IN /\ after >= before
             /\ (source # Null /\ source >= q) => after = before
             /\ (source = Null \/ source < q) => after > before
             /\ after > before => (source = Null \/ source < q)]_vars

\* a reception that conserved the total: the source held what was received
C28_Witness ==
  /\ last.op = "confirmTransferReception"
  /\ last.err = "ok"
  /\ last.transferId \in DOMAIN transfers
  /\ transfers[last.transferId].from_warehouse # transfers[last.transferId].to_warehouse
  /\ last.sourceBefore # Null
  /\ last.sourceBefore >= last.quantityReceived
  /\ TotalStock(stock, transfers[last.transferId].product_id) = last.sourceBefore

----------------------------------------------------------------------------
(* Receptions in flight together, checked under SpecSteps *)

\* process p serves a reception
Receiving(p) == proc[p].op = "confirmTransferReception"

\* C24: receptions of one transfer are guarded by the status test of their
\* first statement and by nothing else: a reception is refused for the
\* transfer's status only there, on the status it read, and a reception that
\* read 'shipped' goes on to its writes whatever the status has become since
\* (so two receptions that both read 'shipped' both mark the transfer
\* received and both adjust the stock).
C24_OnlyStatusGuard ==
  \A p \in Procs :
    Receiving(p) =>
      /\ "transfer" \in DOMAIN proc[p] => proc[p].transfer.status = "shipped"
      /\ proc[p].err = "PreconditionFailed" => "transfer" \notin DOMAIN proc[p]
      /\ proc[p].pc \in {"recv_select_dest", "recv_write_dest", "recv_select_source",
                         "recv_write_source", "done"}
           => /\ "transfer" \in DOMAIN proc[p]
              /\ transfers[proc[p].transferId].status = "received"

\* two receptions of the one transfer of quantity 1 have both succeeded: the
\* destination, which held 1, holds 3, and the source, which held 1, holds 0
C24_Witness ==
  /\ Len(transfers) = 1
  /\ \A p \in {1, 2} :
       /\ Receiving(p)
       /\ proc[p].pc = "done"
       /\ proc[p].transferId = 1
       /\ proc[p].quantityReceived = 1
       /\ Len(proc[p].existingStock) > 0
  /\ transfers[1].quantity_requested = 1
  /\ StockQuantity(stock, 1, "ibn_tachfine") = 3
  /\ StockQuantity(stock, 1, "la_villette") = 0

\* the quantity a reception read in a stock row, 0 when it read no row
QuantityRead(rows) == IF Len(rows) > 0 THEN rows[1].quantity ELSE 0

\* C27: two receptions of distinct transfers that share their stock rows lose
\* no update: when both have completed, the destination holds its initial
\* quantity plus both quantities received, and an existing source row holds
\* its initial quantity less both, floored at 0 each time.  Only receptions
\* write here, the destination never falls and the source never rises, so
\* the initial quantities are the lower destination read and the higher
\* source read.
C27_NoLostUpdate ==
  \A p, r \in Procs :
    (/\ p # r
     /\ \A x \in Procs : proc[x].pc # "idle" => Receiving(x)
     /\ proc[p].pc = "done"
     /\ proc[r].pc = "done"
     /\ proc[p].transferId # proc[r].transferId)
      => LET tr == proc[p].transfer
             dest0 == IF QuantityRead(proc[p].existingStock) < QuantityRead(proc[r].existingStock)
                      THEN QuantityRead(proc[p].existingStock)
                      ELSE QuantityRead(proc[r].existingStock)
             source0 == Max(QuantityRead(proc[p].sourceStock), QuantityRead(proc[r].sourceStock))
             source == StockQuantity(stock, tr.product_id, tr.from_warehouse)
         IN /\ StockQuantity(stock, tr.product_id, tr.to_warehouse)
                 = dest0 + proc[p].quantityReceived + proc[r].quantityReceived
            /\ source # Null
                 => source = Max(0, Max(0, source0 - proc[p].quantityReceived)
                                      - proc[r].quantityReceived)

----------------------------------------------------------------------------
(* Several lines of one product, checked under SpecLimits *)

\* the quantity the validated list requests of a product, over all its lines
RequestedQuantity(productId) ==
  LET RECURSIVE Sum(_)
      Sum(n) == IF n = 0 THEN 0
                ELSE Sum(n - 1) + (IF last.items[n].productId = productId
                                   THEN last.items[n].quantity ELSE 0)
  IN Sum(Len(last.items))

\* C29: validateStockLimits checks the list cumulatively per product: when
\* the quantities of the lines of a limited product sum to more than
\* limit - used, a violation of that product is reported, even if each line
\* alone is within the remaining allowance.
C29_CumulativePerProduct ==
  ValidateOk =>
    \A i \in DOMAIN last.items :
      LET p == last.items[i].productId
      IN (\E l \in MonthlyLimits(last.clientId, p) :
            RequestedQuantity(p) > l - UsedThisMonth(last.clientId, p))
           => /\ ~last.result.isValid
              /\ \E k \in DOMAIN last.result.violations :
                   last.result.violations[k].productId = p

----------------------------------------------------------------------------
(* Pricing rows written through pricing.setCustomPricing, checked under    *)
(* SpecPricing, whose rows are all written by that request with            *)
(* customPrice > 0                                                         *)

\* C30: every pricing row has custom_price > 0, and every line that
\* calculateOrderTotal prices for a pair with a row has finalPrice =
\* custom_price, whatever the discount percentage.
C30_CustomPricePositive ==
  /\ \A r \in DOMAIN pricing : pricing[r].custom_price > 0
  /\ (last.op = "calculateOrderTotal" /\ last.err = "ok") =>
       \A i \in DOMAIN last.items :
         \A r \in PricingRows(last.clientId, last.items[i].productId) :
           last.result.items[i].finalPrice = pricing[r].custom_price * PriceScale

====
